---- MODULE Spec2Model ----
(***************************************************************************)
(* bookbook/latex.py: combining notebooks into one document, with a Latex  *)
(* label under each chapter heading.                                       *)
(*                                                                         *)
(* Text is a sequence of character codes, so that splitlines, join, strip  *)
(* and startswith are computed character by character.  A cell is a record *)
(* [cell_type, metadata, source]; metadata is a set of <<key, value>>      *)
(* pairs, empty (falsy) when the mapping has no entry.                     *)
(***************************************************************************)
EXTENDS Integers, Sequences, FiniteSets

VARIABLES
    pc,             \* position of the running call
    cell,           \* add_sec_label: the argument cell
    nbname,         \* add_sec_label: the argument nbname
    res,            \* add_sec_label: the value returned or the exception raised
    log,            \* records emitted on the module logger
    listing,        \* what source_dir.glob(files_pattern) yields, in scan order
    disk,           \* what each listed file holds
    caller,         \* which entry point started combine_notebooks
    notebook_files, \* combine_notebooks: the argument list
    count,          \* combine_notebooks: loop counter
    combined_nb,    \* combine_notebooks: the accumulator
    error,          \* the exception that ended the run, or NoError
    exported,       \* the notebooks handed to exporter.from_notebook_node
    output,         \* what FilesWriter.write wrote
    exporter,       \* add_preamble: the exporter argument
    tmpdirs         \* the scratch directories on the file system, with their file

vars == <<pc, cell, nbname, res, log, listing, disk, caller, notebook_files,
          count, combined_nb, error, exported, output, exporter, tmpdirs>>

----------------------------------------------------------------------------
(* Bounds *)

MaxLen == 6        \* longest cell source drawn for add_sec_label
MaxChapters == 3   \* longest directory listing
MaxPreamble == 2   \* longest extra preamble text
MaxScratch == 2    \* scratch directories one exporter is given

----------------------------------------------------------------------------
(* Text *)

NL == <<10>>                   \* "\n"
ATX == <<35, 32>>              \* "# "
SETEXT == <<61, 61, 61>>       \* "==="
\* "\n", " ", "#", "=", "a"
Alphabet == {10, 32, 35, 61, 97}
Whitespace == {10, 32}

Texts(n) == UNION {[1..k -> Alphabet] : k \in 0..n}

startswith(s, prefix) ==
    /\ Len(s) >= Len(prefix)
    /\ SubSeq(s, 1, Len(prefix)) = prefix

\* index of the first line break of s, 0 when there is none
FirstBreak(s) ==
    IF \E i \in 1..Len(s) : s[i] = NL[1]
    THEN CHOOSE i \in 1..Len(s) : s[i] = NL[1] /\ \A j \in 1..(i-1) : s[j] # NL[1]
    ELSE 0

RECURSIVE splitlines(_)
splitlines(s) ==
    IF s = <<>> THEN <<>>
    ELSE LET i == FirstBreak(s)
         IN IF i = 0 THEN <<s>>
            ELSE <<SubSeq(s, 1, i-1)>> \o splitlines(SubSeq(s, i+1, Len(s)))

RECURSIVE join(_, _)
join(sep, parts) ==
    IF parts = <<>> THEN <<>>
    ELSE IF Len(parts) = 1 THEN parts[1]
    ELSE parts[1] \o sep \o join(sep, Tail(parts))

strip(s) ==
    IF \A i \in 1..Len(s) : s[i] \in Whitespace THEN <<>>
    ELSE LET a == CHOOSE i \in 1..Len(s) :
                     s[i] \notin Whitespace /\ \A j \in 1..(i-1) : s[j] \in Whitespace
             b == CHOOSE i \in 1..Len(s) :
                     s[i] \notin Whitespace /\ \A j \in (i+1)..Len(s) : s[j] \in Whitespace
         IN SubSeq(s, a, b)

----------------------------------------------------------------------------
(* Cells *)

EmptyMetadata == {}

new_markdown_cell(source) ==
    [cell_type |-> "markdown", metadata |-> EmptyMetadata, source |-> source]

new_latex_cell(source) ==
    [cell_type |-> "raw", metadata |-> {<<"raw_mimetype", "text/latex">>},
     source |-> source]

\* '\label{sec:%s}' % nbname
LabelOpen == <<92, 108, 97, 98, 101, 108, 123, 115, 101, 99, 58>>
LabelClose == <<125>>
label_text(name) == LabelOpen \o name \o LabelClose

Returned(cells, critical) ==
    [status |-> "returned", cells |-> cells, critical |-> critical]
Raised(exc, critical) ==
    [status |-> exc, cells |-> <<>>, critical |-> critical]

\* lines 61-67: how many lines the heading takes; 0 stands for `raise NoHeader`
\* and -1 for the IndexError of lines[0] on an empty list
header_lines(lines) ==
    IF lines = <<>> THEN -1
    ELSE IF startswith(lines[1], ATX) THEN 1
    ELSE IF Len(lines) > 1 /\ startswith(lines[2], SETEXT) THEN 2
    ELSE 0

split_header_unstripped(c, name, lines, n) ==
    LET header == join(NL, SubSeq(lines, 1, n))
        intro_remainder == join(NL, SubSeq(lines, n+1, Len(lines)))
        head == [new_markdown_cell(header) EXCEPT !.metadata = c.metadata]
        label == new_latex_cell(label_text(name))
    IN IF Len(lines) > n
       THEN <<head, label, new_markdown_cell(intro_remainder)>>
       ELSE <<head, label>>

\* lines 69-78
split_header(c, name, lines, n) ==
    LET header == join(NL, SubSeq(lines, 1, n))
        intro_remainder == strip(join(NL, SubSeq(lines, n+1, Len(lines))))
        head == [new_markdown_cell(header) EXCEPT !.metadata = c.metadata]
        label == new_latex_cell(label_text(name))
    IN IF intro_remainder # <<>>
       THEN <<head, label, new_markdown_cell(intro_remainder)>>
       ELSE <<head, label>>

add_sec_label_assert(c, name) ==
    LET lines == splitlines(c.source)
        n == header_lines(lines)
    IN IF c.cell_type # "markdown" THEN Raised("AssertionError", FALSE)
       ELSE IF n = -1 THEN Raised("IndexError", FALSE)
       ELSE IF n = 0 THEN Raised("NoHeader", FALSE)
       ELSE Returned(split_header(c, name, lines, n), FALSE)

\* lines 48-78
add_sec_label(c, name) ==
    LET critical == c.cell_type # "markdown"
        lines == splitlines(c.source)
        n == header_lines(lines)
    IN IF n = -1 THEN Raised("IndexError", critical)
       ELSE IF n = 0 THEN Raised("NoHeader", critical)
       ELSE Returned(split_header(c, name, lines, n), critical)

CriticalRecord == <<"CRITICAL", "add_sec_label: cell_type should be \"markdown\"">>

----------------------------------------------------------------------------
(* Paths *)

Ext == <<46, 105, 112, 121, 110, 98>>      \* ".ipynb"
\* "1-a", "10-a", "2-b", "1-b": the names that match *-*.ipynb
Names == { <<49, 45, 97>> \o Ext, <<49, 48, 45, 97>> \o Ext,
           <<50, 45, 98>> \o Ext, <<49, 45, 98>> \o Ext }

\* PurePath.stem: the name without its last suffix
stem(name) ==
    LET dots == {i \in 1..Len(name) : name[i] = Ext[1]}
        i == IF dots = {} THEN 0 ELSE CHOOSE d \in dots : \A e \in dots : e <= d
    IN IF 1 < i /\ i < Len(name) THEN SubSeq(name, 1, i-1) ELSE name

\* PurePath.__lt__ for two paths of one directory: the names compared as str
RECURSIVE path_lt(_, _)
path_lt(a, b) ==
    IF b = <<>> THEN FALSE
    ELSE IF a = <<>> THEN TRUE
    ELSE IF a[1] # b[1] THEN a[1] < b[1]
    ELSE path_lt(Tail(a), Tail(b))

RECURSIVE insert(_, _)
insert(x, s) ==
    IF s = <<>> THEN <<x>>
    ELSE IF path_lt(x, s[1]) THEN <<x>> \o s
    ELSE <<s[1]>> \o insert(x, Tail(s))

sorted_asgiven(s) == s

\* line 197: sorted(...), a stable sort
RECURSIVE sorted(_)
sorted(s) ==
    IF s = <<>> THEN <<>>
    ELSE insert(s[Len(s)], sorted(SubSeq(s, 1, Len(s) - 1)))

----------------------------------------------------------------------------
(* Notebooks *)

new_notebook == [cells |-> <<>>, metadata |-> EmptyMetadata]

NoResult == [status |-> "none", cells |-> <<>>, critical |-> FALSE]
NoCell == [cell_type |-> "none", metadata |-> EmptyMetadata, source |-> <<>>]
NoError == [type |-> "none", message |-> <<>>]
NoExporter == [template_path |-> <<>>, template_file |-> "none"]

\* "# a\na ", "a\n===", "a", ""
FirstSources == { <<35, 32, 97, 10, 97, 32>>, <<97, 10, 61, 61, 61>>, <<97>>, <<>> }

\* what a listed file holds: its first cell's source (or no cell at all) and
\* whether the notebook has metadata
Contents ==
    [cells : {TRUE}, source : FirstSources, metadata : BOOLEAN]
    \cup [cells : {FALSE}, source : {<<>>}, metadata : {FALSE}]

\* line 89: nbformat.read; the cells after the first one are a code cell
\* that holds the file's stem, the metadata names the file
read(name, content) ==
    [cells |-> IF content.cells
               THEN << [cell_type |-> "markdown", metadata |-> {<<"tags", "intro">>},
                        source |-> content.source],
                       [cell_type |-> "code", metadata |-> EmptyMetadata,
                        source |-> stem(name)] >>
               ELSE <<>>,
     metadata |-> IF content.metadata THEN {<<"title", name>>} ELSE EmptyMetadata]

Range(s) == {s[i] : i \in 1..Len(s)}

Listings ==
    {s \in UNION {[1..k -> Names] : k \in 0..MaxChapters} :
        \A i, j \in 1..Len(s) : i # j => s[i] # s[j]}

NoHeaderError(filename) ==
    [type |-> "NoHeader", message |-> <<"Failed to find header in ", filename>>]

chapter_cells_whole(nb, filename) ==
    IF nb.cells = <<>> THEN [error |-> [type |-> "IndexError", message |-> <<>>],
                             cells |-> <<>>, critical |-> FALSE]
    ELSE LET r == add_sec_label(nb.cells[1], stem(filename))
         IN IF r.status = "NoHeader"
            THEN [error |-> NoHeaderError(filename), cells |-> <<>>,
                  critical |-> r.critical]
            ELSE IF r.status # "returned"
            THEN [error |-> [type |-> r.status, message |-> <<>>], cells |-> <<>>,
                  critical |-> r.critical]
            ELSE [error |-> NoError, cells |-> r.cells \o nb.cells,
                  critical |-> r.critical]

chapter_cells_swallow(nb, filename) ==
    IF nb.cells = <<>> THEN [error |-> [type |-> "IndexError", message |-> <<>>],
                             cells |-> <<>>, critical |-> FALSE]
    ELSE LET r == add_sec_label(nb.cells[1], stem(filename))
         IN IF r.status = "NoHeader"
            THEN [error |-> NoError, cells |-> Tail(nb.cells),
                  critical |-> r.critical]
            ELSE IF r.status # "returned"
            THEN [error |-> [type |-> r.status, message |-> <<>>], cells |-> <<>>,
                  critical |-> r.critical]
            ELSE [error |-> NoError, cells |-> r.cells \o Tail(nb.cells),
                  critical |-> r.critical]

\* lines 91-96: the cells one chapter adds, or the exception that leaves the loop
chapter_cells(nb, filename) ==
    IF nb.cells = <<>> THEN [error |-> [type |-> "IndexError", message |-> <<>>],
                             cells |-> <<>>, critical |-> FALSE]
    ELSE LET r == add_sec_label(nb.cells[1], stem(filename))
         IN IF r.status = "NoHeader"
            THEN [error |-> NoHeaderError(filename), cells |-> <<>>,
                  critical |-> r.critical]
            ELSE IF r.status # "returned"
            THEN [error |-> [type |-> r.status, message |-> <<>>], cells |-> <<>>,
                  critical |-> r.critical]
            ELSE [error |-> NoError, cells |-> r.cells \o Tail(nb.cells),
                  critical |-> r.critical]

combined_metadata_last(current, nbmetadata) == nbmetadata

combined_metadata_never(current, nbmetadata) == current

\* lines 98-99
combined_metadata(current, nbmetadata) ==
    IF current = EmptyMetadata THEN nbmetadata ELSE current

----------------------------------------------------------------------------
(* add_sec_label called on one cell *)

CellTypes == {"markdown", "code"}
Metadatas == {EmptyMetadata, {<<"tags", "hidden">>}}
Stem1 == <<49, 45, 97>>    \* "1-a"

Idle ==
    /\ listing = <<>>
    /\ disk = <<>>
    /\ caller = "none"
    /\ notebook_files = <<>>
    /\ count = 0
    /\ combined_nb = new_notebook
    /\ error = NoError
    /\ exported = <<>>
    /\ output = <<>>

InitLabel ==
    /\ pc = "add_sec_label"
    /\ cell \in [cell_type : CellTypes, metadata : Metadatas, source : Texts(MaxLen)]
    /\ nbname = Stem1
    /\ res = NoResult
    /\ log = <<>>
    /\ Idle
    /\ exporter = NoExporter
    /\ tmpdirs = {}

CallAddSecLabel ==
    /\ pc = "add_sec_label"
    /\ LET r == add_sec_label(cell, nbname)
       IN /\ res' = r
          /\ log' = IF r.critical THEN Append(log, CriticalRecord) ELSE log
    /\ pc' = "end"
    /\ UNCHANGED <<cell, nbname, listing, disk, caller, notebook_files, count,
                   combined_nb, error, exported, output, exporter, tmpdirs>>

NextLabel == CallAddSecLabel

SpecLabel == InitLabel /\ [][NextLabel]_vars

----------------------------------------------------------------------------
(* combine_and_convert, and combine_notebooks called on a list as given *)

Init ==
    /\ pc = "start"
    /\ cell = NoCell
    /\ nbname = <<>>
    /\ res = NoResult
    /\ log = <<>>
    /\ listing \in Listings
    /\ disk \in [Range(listing) -> Contents]
    /\ caller = "none"
    /\ notebook_files = <<>>
    /\ count = 0
    /\ combined_nb = new_notebook
    /\ error = NoError
    /\ exported = <<>>
    /\ output = <<>>
    /\ exporter = NoExporter
    /\ tmpdirs = {}

\* lines 197-198 and 82-84
CombineAndConvert ==
    /\ pc = "start"
    /\ caller' = "combine_and_convert"
    /\ notebook_files' = sorted(listing)
    /\ combined_nb' = new_notebook
    /\ count' = 0
    /\ pc' = "combine"
    /\ UNCHANGED <<cell, nbname, res, log, listing, disk, error, exported, output,
                   exporter, tmpdirs>>

\* lines 81-84, called with the list in the order given
CombineNotebooks ==
    /\ pc = "start"
    /\ caller' = "combine_notebooks"
    /\ notebook_files' = listing
    /\ combined_nb' = new_notebook
    /\ count' = 0
    /\ pc' = "combine"
    /\ UNCHANGED <<cell, nbname, res, log, listing, disk, error, exported, output,
                   exporter, tmpdirs>>

\* lines 85-99: one pass of the loop
CombineChapter ==
    /\ pc = "combine"
    /\ count < Len(notebook_files)
    /\ LET filename == notebook_files[count + 1]
           nb == read(filename, disk[filename])
           c == chapter_cells(nb, filename)
           added == Append(log, <<"DEBUG", "Adding notebook: %s", filename>>)
       IN /\ count' = count + 1
          /\ log' = IF c.critical THEN Append(added, CriticalRecord) ELSE added
          /\ IF c.error # NoError
             THEN /\ error' = c.error
                  /\ pc' = "aborted"
                  /\ UNCHANGED combined_nb
             ELSE /\ combined_nb' =
                        [cells |-> combined_nb.cells \o c.cells,
                         metadata |-> combined_metadata(combined_nb.metadata, nb.metadata)]
                  /\ UNCHANGED <<error, pc>>
    /\ UNCHANGED <<cell, nbname, res, listing, disk, caller, notebook_files, exported,
                   output, exporter, tmpdirs>>

\* lines 101-102, and the return into line 203
CombineReturn ==
    /\ pc = "combine"
    /\ count = Len(notebook_files)
    /\ log' = Append(log, <<"INFO", "Combined %d files", count>>)
    /\ pc' = IF caller = "combine_and_convert" THEN "export" ELSE "returned"
    /\ UNCHANGED <<cell, nbname, res, listing, disk, caller, notebook_files, count,
                   combined_nb, error, exported, output, exporter, tmpdirs>>

\* lines 153-185; the exporter is nbconvert's and may raise
Export ==
    /\ pc = "export"
    /\ log' = Append(log, <<"INFO", "Converting to %s", "latex">>)
    /\ exported' = Append(exported, combined_nb)
    /\ \E ok \in BOOLEAN :
          IF ok
          THEN /\ output' = Append(output, combined_nb)
               /\ pc' = "done"
               /\ UNCHANGED error
          ELSE /\ error' = [type |-> "ExporterError", message |-> <<>>]
               /\ pc' = "aborted"
               /\ UNCHANGED output
    /\ UNCHANGED <<cell, nbname, res, listing, disk, caller, notebook_files, count,
                   combined_nb, exporter, tmpdirs>>

Next ==
    \/ CombineAndConvert
    \/ CombineNotebooks
    \/ CombineChapter
    \/ CombineReturn
    \/ Export

Spec == Init /\ [][Next]_vars

----------------------------------------------------------------------------
(* add_preamble applied to an exporter that is then run *)

TemplateHead == "((* extends 'article.tplx' *))\n((* block header *))\n((( super() )))\n"
TemplateTail == "((* endblock header *))\n"

InitPreamble ==
    /\ pc = "prepare"
    /\ cell = NoCell
    /\ nbname = <<>>
    /\ res = NoResult
    /\ log = <<>>
    /\ Idle
    /\ exporter \in [template_path : {<<".">>}, template_file : {"article", "custom"}]
    /\ tmpdirs = {}

\* lines 130-150; mkdtemp gives a directory that did not exist
AddPreamble ==
    /\ pc = "prepare"
    /\ Cardinality(tmpdirs) < MaxScratch
    /\ \E given \in BOOLEAN, extra_preamble \in Texts(MaxPreamble) :
          IF ~given
          THEN UNCHANGED <<exporter, tmpdirs>>
          ELSE \E td \in (1..MaxScratch) \ {d.dir : d \in tmpdirs} :
                  /\ tmpdirs' = tmpdirs \cup
                        {[dir |-> td, name |-> "with_extra_preamble.tplx",
                          text |-> <<TemplateHead, extra_preamble, TemplateTail>>]}
                  /\ exporter' = [template_path |-> exporter.template_path \o <<td>>,
                                  template_file |-> "with_extra_preamble"]
    /\ UNCHANGED <<pc, cell, nbname, res, log, listing, disk, caller, notebook_files,
                   count, combined_nb, error, exported, output>>

\* lines 183-185 on the prepared exporter: the export call the template serves
RunExporter ==
    /\ pc = "prepare"
    /\ exported' = Append(exported, combined_nb)
    /\ output' = Append(output, combined_nb)
    /\ pc' = "done"
    /\ UNCHANGED <<cell, nbname, res, log, listing, disk, caller, notebook_files,
                   count, combined_nb, error, exporter, tmpdirs>>

NextPreamble ==
    \/ AddPreamble
    \/ RunExporter

SpecPreamble == InitPreamble /\ [][NextPreamble]_vars

----------------------------------------------------------------------------
(* What the text of a first cell is, read off its characters *)

Breaks(src) == {i \in 1..Len(src) : src[i] = 10}

\* line 1 starts with "# ", or there is a line 2 and it starts with "==="
HasHeading(src) ==
    \/ startswith(src, ATX)
    \/ /\ Breaks(src) # {}
       /\ LET b == CHOOSE i \in Breaks(src) : \A j \in Breaks(src) : i <= j
          IN startswith(SubSeq(src, b + 1, Len(src)), SETEXT)

HeadingLines(src) == IF startswith(src, ATX) THEN 1 ELSE 2

\* the position of the last character of the heading lines
HeadingEnd(src) ==
    LET k == HeadingLines(src)
        kth == {i \in Breaks(src) : Cardinality({j \in Breaks(src) : j <= i}) = k}
    IN IF kth = {} THEN Len(src) ELSE (CHOOSE i \in kth : TRUE) - 1

HasRemainder(src) ==
    \E i \in (HeadingEnd(src) + 1)..Len(src) : src[i] \notin Whitespace

LabelUnit(name) ==
    [cell_type |-> "raw", metadata |-> {<<"raw_mimetype", "text/latex">>},
     source |-> LabelOpen \o stem(name) \o LabelClose]

Chapter(name) == read(name, disk[name])

ValidChapter(name) ==
    /\ Chapter(name).cells # <<>>
    /\ HasHeading(Chapter(name).cells[1].source)

LacksHeading(name) ==
    /\ Chapter(name).cells # <<>>
    /\ ~HasHeading(Chapter(name).cells[1].source)

ExpectedChapter(name) ==
    LET first == Chapter(name).cells[1]
        src == first.source
        e == HeadingEnd(src)
    IN << [cell_type |-> "markdown", metadata |-> first.metadata,
           source |-> SubSeq(src, 1, e)],
          LabelUnit(name) >>
       \o (IF HasRemainder(src)
           THEN << [cell_type |-> "markdown", metadata |-> EmptyMetadata,
                    source |-> strip(SubSeq(src, e + 1, Len(src)))] >>
           ELSE <<>>)
       \o Tail(Chapter(name).cells)

RECURSIVE ExpectedCells(_)
ExpectedCells(names) ==
    IF names = <<>> THEN <<>>
    ELSE ExpectedChapter(names[1]) \o ExpectedCells(Tail(names))

\* combine_notebooks has returned its document
CombineFinished ==
    \/ pc \in {"export", "returned", "done"}
    \/ pc = "aborted" /\ error.type = "ExporterError"

LexLess(a, b) ==
    \E k \in 1..(Len(a) + 1) :
        /\ \A j \in 1..(k - 1) : j <= Len(b) /\ a[j] = b[j]
        /\ k <= Len(b)
        /\ (k <= Len(a) => a[k] < b[k])

\* the one arrangement of a set of names in ascending lexicographic order:
\* the name that is below every other one, then the rest likewise
RECURSIVE Canon(_)
Canon(S) ==
    IF S = {} THEN <<>>
    ELSE LET least == CHOOSE x \in S : \A y \in S \ {x} : LexLess(x, y)
         IN <<least>> \o Canon(S \ {least})

Labels(cells) == SelectSeq(cells, LAMBDA c : c.cell_type = "raw")

----------------------------------------------------------------------------
(* Claims about combine_notebooks and combine_and_convert (Spec) *)

\* C1: when every chapter's first unit has a valid heading, the combined
\* document is, chapter by chapter in the order of the input list: the heading
\* unit, one Label unit \label{sec:<stem>}, the intro remainder iff there is
\* one, then the chapter's units 2..N unchanged and in order.
C1_CombinedSequence ==
    (CombineFinished /\ \A i \in 1..Len(notebook_files) : ValidChapter(notebook_files[i]))
        => combined_nb.cells = ExpectedCells(notebook_files)

C1_Witness ==
    /\ pc = "returned"
    /\ Len(notebook_files) = 3
    /\ notebook_files # sorted(notebook_files)
    /\ \E i, j \in 1..3 :
          /\ HasRemainder(Chapter(notebook_files[i]).cells[1].source)
          /\ ~HasRemainder(Chapter(notebook_files[j]).cells[1].source)
    /\ Len(combined_nb.cells) = 10

\* C2: a chapter X whose first unit lacks both heading forms (an empty source
\* included) makes combine_notebooks fail with a NoHeader error whose message
\* names X's filename, and with no other kind of error.
C2_NoHeaderNamesChapter ==
    \A i \in 1..count :
        (/\ LacksHeading(notebook_files[i])
         /\ \A j \in 1..(i - 1) : ValidChapter(notebook_files[j]))
        => /\ pc = "aborted"
           /\ error.type = "NoHeader"
           /\ error.message[2] = notebook_files[i]

FirstNonEmptyMetadata(names) ==
    LET full == {i \in 1..Len(names) : Chapter(names[i]).metadata # EmptyMetadata}
    IN IF full = {} THEN EmptyMetadata
       ELSE Chapter(names[CHOOSE i \in full : \A j \in full : i <= j]).metadata

\* C3 as stated: after combine_notebooks finishes on a non-empty list the
\* metadata is the first chapter's, also when that is empty and a later
\* chapter's is not.
C3_FirstChapterMetadata ==
    (CombineFinished /\ notebook_files # <<>>)
        => combined_nb.metadata = Chapter(notebook_files[1]).metadata

\* C3 amended: after combine_notebooks finishes the metadata is that of the
\* first chapter in processing order whose metadata is non-empty (empty when
\* there is none); an empty first chapter's metadata is backfilled.
C3_FirstNonEmptyMetadata ==
    CombineFinished => combined_nb.metadata = FirstNonEmptyMetadata(notebook_files)

C3_Witness ==
    /\ CombineFinished
    /\ Len(notebook_files) = 3
    /\ Chapter(notebook_files[1]).metadata = EmptyMetadata
    /\ Chapter(notebook_files[2]).metadata # EmptyMetadata
    /\ Chapter(notebook_files[3]).metadata # EmptyMetadata
    /\ combined_nb.metadata = Chapter(notebook_files[2]).metadata

ExtractorFails(name) ==
    /\ Chapter(name).cells # <<>>
    /\ add_sec_label(Chapter(name).cells[1], stem(name)).status # "returned"

\* C4: in combine_and_convert, once the Extractor has failed on a chapter,
\* whatever its position, the run has aborted and export is never invoked:
\* nothing is handed to the exporter and nothing is written.
C4_NoExportAfterFailure ==
    (/\ caller = "combine_and_convert"
     /\ \E i \in 1..count : ExtractorFails(notebook_files[i]))
        => /\ pc = "aborted"
           /\ error.type \in {"NoHeader", "IndexError"}
           /\ exported = <<>>
           /\ output = <<>>

C4_Witness ==
    /\ caller = "combine_and_convert"
    /\ pc = "aborted"
    /\ count = 3
    /\ ExtractorFails(notebook_files[3])
    /\ combined_nb.cells # <<>>
    /\ exported = <<>>

\* C5: in combine_and_convert the chapters are combined in the lexicographic
\* order of the matched filenames whatever order the scan returned them in, so
\* the combined document depends on the set of files only.
C5_LexicographicOrder ==
    caller = "combine_and_convert"
        => LET order == Canon(Range(listing))
           IN /\ notebook_files = order
              /\ \A i, j \in 1..Len(order) : i < j => LexLess(order[i], order[j])
              /\ CombineFinished =>
                    /\ combined_nb.cells = ExpectedCells(order)
                    /\ Labels(combined_nb.cells) =
                           [i \in 1..Len(listing) |-> LabelUnit(order[i])]

C5_Witness ==
    /\ caller = "combine_and_convert"
    /\ pc = "done"
    /\ Len(listing) = 3
    /\ listing[1] = <<50, 45, 98>> \o Ext
    /\ listing[2] = <<49, 48, 45, 97>> \o Ext
    /\ notebook_files[1] = <<49, 45, 97>> \o Ext
    /\ notebook_files[2] = <<49, 48, 45, 97>> \o Ext

\* C9: the combined metadata changes at most once: only from empty, to the
\* metadata of the chapter being processed when every earlier chapter's was
\* empty; once non-empty no later chapter changes it.
C9_MetadataSetOnce ==
    [][/\ combined_nb.metadata # EmptyMetadata
            => combined_nb'.metadata = combined_nb.metadata
       /\ combined_nb'.metadata # combined_nb.metadata
            => /\ pc = "combine"
               /\ count < Len(notebook_files)
               /\ combined_nb'.metadata = Chapter(notebook_files[count + 1]).metadata
               /\ \A j \in 1..count :
                     Chapter(notebook_files[j]).metadata = EmptyMetadata]_vars

C9_Witness ==
    /\ pc = "combine"
    /\ count = 2
    /\ Chapter(notebook_files[1]).metadata # EmptyMetadata
    /\ Chapter(notebook_files[2]).metadata # EmptyMetadata
    /\ combined_nb.metadata = Chapter(notebook_files[1]).metadata

----------------------------------------------------------------------------
(* Claims about add_preamble (SpecPreamble) *)

\* C6: a scratch directory made by add_preamble no longer exists once the
\* export call it serves has ended.
C6_ScratchRemoved ==
    pc = "done" => tmpdirs = {}

----------------------------------------------------------------------------
(* Claims about add_sec_label (SpecLabel) *)

\* C7: line 1 starting with "# " makes the heading line 1 only (a line 2
\* starting with "===" then belongs to the remainder); otherwise a line 2
\* starting with "===" makes the heading lines 1-2; otherwise the result is
\* NoHeader.
C7_HeadingOrder ==
    pc = "end" =>
        LET lines == splitlines(cell.source)
        IN IF Len(lines) >= 1 /\ startswith(lines[1], ATX)
           THEN /\ res.status = "returned"
                /\ res.cells[1].source = lines[1]
                /\ (Len(lines) >= 2 /\ startswith(lines[2], SETEXT))
                      => /\ Len(res.cells) = 3
                         /\ startswith(res.cells[3].source, SETEXT)
           ELSE IF Len(lines) >= 2 /\ startswith(lines[2], SETEXT)
           THEN /\ res.status = "returned"
                /\ res.cells[1].source = lines[1] \o NL \o lines[2]
           ELSE res.status = "NoHeader"

\* C8: on success the heading unit holds the heading lines only and carries
\* the first unit's metadata; a remainder unit follows the label iff a
\* non-blank character comes after the heading lines, it has empty metadata,
\* and the result then has length 3, otherwise length 2.
C8_SplitUnits ==
    (pc = "end" /\ res.status = "returned") =>
        LET src == cell.source
            e == HeadingEnd(src)
        IN /\ res.cells[1] = [cell_type |-> "markdown", metadata |-> cell.metadata,
                              source |-> SubSeq(src, 1, e)]
           /\ \A i \in 1..e : src[i] = 10 => (HeadingLines(src) = 2 /\ i < e)
           /\ res.cells[2].cell_type = "raw"
           /\ IF HasRemainder(src)
              THEN /\ Len(res.cells) = 3
                   /\ res.cells[3].cell_type = "markdown"
                   /\ res.cells[3].metadata = EmptyMetadata
                   /\ res.cells[3].source # <<>>
              ELSE Len(res.cells) = 2

C8_Witness ==
    /\ pc = "end"
    /\ res.status = "returned"
    /\ cell.metadata # EmptyMetadata
    /\ Len(res.cells) = 3
    /\ Len(res.cells[3].source) < Len(cell.source) - HeadingEnd(cell.source) - 1

\* C10: a first unit that is not markdown gets a critical log record and no
\* abort: the outcome is that of a markdown unit with the same text and
\* metadata.
C10_NonMarkdownSameOutcome ==
    pc = "end" =>
        IF cell.cell_type = "markdown"
        THEN log = <<>>
        ELSE LET twin == add_sec_label([cell EXCEPT !.cell_type = "markdown"], nbname)
             IN /\ log = <<CriticalRecord>>
                /\ res.status = twin.status
                /\ res.cells = twin.cells
                /\ res.status \in {"returned", "NoHeader", "IndexError"}
                /\ res.status = "returned" <=> HasHeading(cell.source)

C10_Witness ==
    /\ pc = "end"
    /\ cell.cell_type = "code"
    /\ res.status = "returned"
    /\ Len(res.cells) = 3
    /\ log # <<>>

====
